---- MODULE Spec2Model ----
(***************************************************************************)
(* A model of the drivers of wilem-bot (alpha-tak): the interactive game   *)
(* loop `play`, `example_game`, `pit_game`, the playtak worker and client, *)
(* and the start of `train`.  The rule engine (tak::Game), the search tree *)
(* (Node) and Player are not part of the sources at hand; they are         *)
(* modelled from the design document on a small board with flat            *)
(* placements only.                                                        *)
(***************************************************************************)
EXTENDS Integers, Sequences, FiniteSets, TLC

\* ------------------------------------------------------------------ sizes
\* Side of the board.  The programs instantiate Game::<5>; the model plays
\* on the 2x2 board.
N == 2
\* Length of one batch of rollouts (the literal 100 of `for _ in 0..100`,
\* and the counts given to Player::rollout), scaled down.
BatchSize == 2
\* Batches of rollouts one run may do in all.
MaxBatches == 1
\* Games the playtak client seeks.
MaxGames == 1
\* debug.rs: rollouts that built the tree continuation and debug are called on.
MaxTreeRollouts == 4
\* debug.rs: the largest min_visit_count, depth and limit the calls are given.
MaxMinVisit == 3
MaxDepth == 4
MaxLimit == 2
\* train: example files' examples, examples of one round of self-play,
\* iterations of the training loop, and the matches of one pit.
MaxLoaded == 2
MaxNewExamples == 2
MaxIterations == 1
PIT_MATCHES == 2
\* 250_000 in the program.
MAX_EXAMPLES == 3
\* 0.55, in hundredths.
WIN_RATE_THRESHOLD == 55

KOMI == 2

\* ------------------------------------------------------------------ colours
White == "White"
Black == "Black"
Colours == {White, Black}

\* Colour::next
next(c) == IF c = White THEN Black ELSE White

\* ------------------------------------------------------------------ turns
\* A turn places a flat on a square; squares are numbered row by row,
\* Pos {x, y} being square y * N + x + 1.
Squares == 1..(N * N)
Turns == Squares
Sq(x, y) == y * N + x + 1
PosX(s) == (s - 1) % N
PosY(s) == (s - 1) \div N

\* PTN text of a turn: file letter and rank digit, "a1" is Pos {0, 0}.
Files == <<"a", "b", "c", "d", "e">>
ToPTN(t) == <<Files[PosX(t) + 1], PosY(t) + 1>>

\* Turn::from_ptn: Ok(turn) for the text of a square of the board, else Err.
FromPTN(line) ==
    IF /\ Len(line) = 2
       /\ \E x \in 0..(N - 1) : Files[x + 1] = line[1]
       /\ line[2] \in 1..N
    THEN [ok |-> TRUE,
          turn |-> Sq(CHOOSE x \in 0..(N - 1) : Files[x + 1] = line[1], line[2] - 1)]
    ELSE [ok |-> FALSE, turn |-> 0]

\* ------------------------------------------------------------------ game
Empty == "-"
Ongoing == [kind |-> "Ongoing", colour |-> "-", reason |-> "-"]
Winner(c, r) == [kind |-> "Winner", colour |-> c, reason |-> r]
Draw == [kind |-> "Draw", colour |-> "-", reason |-> "-"]

\* Game::with_komi
NewGame == [board |-> [s \in Squares |-> Empty], ply |-> 0, to_move |-> White]

Adjacent(s, u) ==
    \/ PosY(s) = PosY(u) /\ (PosX(s) - PosX(u) = 1 \/ PosX(u) - PosX(s) = 1)
    \/ PosX(s) = PosX(u) /\ (PosY(s) - PosY(u) = 1 \/ PosY(u) - PosY(s) = 1)

\* The squares of colour c connected to the set S.
RECURSIVE Connected(_, _, _)
Connected(S, board, c) ==
    LET more == {u \in Squares \ S : board[u] = c /\ \E s \in S : Adjacent(s, u)}
    IN  IF more = {} THEN S ELSE Connected(S \cup more, board, c)

\* A road joins two opposite edges of the board.
HasRoad(board, c) ==
    LET mine(S) == {s \in S : board[s] = c}
        left == {s \in Squares : PosX(s) = 0}
        right == {s \in Squares : PosX(s) = N - 1}
        bottom == {s \in Squares : PosY(s) = 0}
        top == {s \in Squares : PosY(s) = N - 1}
    IN  \/ Connected(mine(left), board, c) \cap right # {}
        \/ Connected(mine(bottom), board, c) \cap top # {}

Flats(board, c) == Cardinality({s \in Squares : board[s] = c})

\* Game::winner.  The colour that just moved is looked at first for a road;
\* a full board is decided by the flat count, Black's raised by the komi.
GameWinner(g) ==
    LET mover == next(g.to_move)
        w == Flats(g.board, White)
        b == Flats(g.board, Black) + KOMI
    IN  IF g.ply > 0 /\ HasRoad(g.board, mover) THEN Winner(mover, "Road")
        ELSE IF g.ply > 0 /\ HasRoad(g.board, g.to_move) THEN Winner(g.to_move, "Road")
        ELSE IF \A s \in Squares : g.board[s] # Empty
             THEN IF w > b THEN Winner(White, "Flats")
                  ELSE IF b > w THEN Winner(Black, "Flats")
                  ELSE Draw
        ELSE Ongoing

Legal(g, t) == t \in Squares /\ g.board[t] = Empty /\ GameWinner(g) = Ongoing

LegalTurns(g) == {t \in Turns : Legal(g, t)}

\* The game after a legal turn.
Applied(g, t) ==
    [board |-> [g.board EXCEPT ![t] = g.to_move],
     ply |-> g.ply + 1,
     to_move |-> next(g.to_move)]

\* What a rejected attempt may leave behind when the caller keeps no copy:
\* the design asks for an untouched game, the interactive loop does not rely
\* on it, so both an untouched and a half-updated game are admitted.
Spoiled(g) == [g EXCEPT !.ply = g.ply + 1]

\* Game::play: the outcomes of an attempt, each a result and the game left.
GamePlay(g, t) ==
    IF Legal(g, t)
    THEN {[ok |-> TRUE, game |-> Applied(g, t)]}
    ELSE {[ok |-> FALSE, game |-> g], [ok |-> FALSE, game |-> Spoiled(g)]}

\* ------------------------------------------------------------------ networks
\* A network is known to the drivers by the priors it gives; two stand-ins:
\* one with uniform priors, one that prefers high squares.
Networks == {"uniform", "high"}
Prior(net, t) == IF net = "uniform" THEN 1 ELSE t

\* ------------------------------------------------------------------ search tree
\* A tree maps the path of turns from the root to the node there.
NewNode(p) == [visits |-> 0, policy |-> p, result |-> Ongoing]

\* Node::default
DefaultNode == (<< >> :> NewNode(0))

Children(t, p) == {k \in Turns : Append(p, k) \in DOMAIN t}

\* Node::is_policy_initialized
IsPolicyInitialized(t) == Children(t, << >>) # {}

\* Node::play: the subtree under the chosen child; a fresh node when the
\* turn has no child.
NodePlay(t, k) ==
    IF <<k>> \in DOMAIN t
    THEN LET under == {q \in DOMAIN t : Len(q) >= 1 /\ q[1] = k}
         IN  [p \in {Tail(q) : q \in under} |-> t[<<k>> \o p]]
    ELSE DefaultNode

\* Selection: the nodes a rollout can stop at, with the working copy of the
\* game there.  Any child can carry the highest score, the evaluator's
\* values being outside the model.  ok is FALSE when a child's turn cannot
\* be played on the working copy.
RECURSIVE SelectionEnds(_, _, _)
SelectionEnds(t, g, p) ==
    IF GameWinner(g) # Ongoing \/ Children(t, p) = {}
    THEN {[path |-> p, game |-> g, ok |-> TRUE]}
    ELSE UNION {IF Legal(g, k)
                THEN SelectionEnds(t, Applied(g, k), Append(p, k))
                ELSE {[path |-> Append(p, k), game |-> g, ok |-> FALSE]}
                : k \in Children(t, p)}

Prefixes(p) == {SubSeq(p, 1, n) : n \in 0..Len(p)}

\* Expansion and backup of one rollout that stopped at e.
RolloutAt(t, net, e) ==
    LET fresh == IF GameWinner(e.game) = Ongoing
                 THEN {Append(e.path, k) : k \in LegalTurns(e.game)}
                 ELSE {}
        grown == [q \in DOMAIN t \cup fresh |->
                     IF q \in DOMAIN t THEN t[q] ELSE NewNode(Prior(net, q[Len(q)]))]
    IN  [q \in DOMAIN grown |->
            IF q = e.path
            THEN [grown[q] EXCEPT !.visits = grown[q].visits + 1,
                                  !.result = GameWinner(e.game)]
            ELSE IF q \in Prefixes(e.path)
            THEN [grown[q] EXCEPT !.visits = grown[q].visits + 1]
            ELSE grown[q]]

\* Node::rollout: the trees one rollout can leave.
Rollouts(t, g, net) == {RolloutAt(t, net, e) : e \in {x \in SelectionEnds(t, g, << >>) : x.ok}}

\* Node::rollout fails when the tree holds a turn the game rejects.
RolloutPanics(t, g) == \E e \in SelectionEnds(t, g, << >>) : ~e.ok

\* n rollouts in a row.
RECURSIVE RolloutsN(_, _, _, _)
RolloutsN(t, g, net, n) ==
    IF n = 0 THEN {t}
    ELSE UNION {RolloutsN(u, g, net, n - 1) : u \in Rollouts(t, g, net)}

\* Node::pick_move: the most visited child, ties to the higher prior, then to
\* the lower square, or else a child drawn in proportion to its visits.  The
\* flag is read as the callers use it: `continuation` builds its greedy line
\* with pick_move(true), and `play` passes game.ply > 3, so true asks for the
\* most visited child.  The empty set when there is nothing to pick.
Better(t, a, b) ==
    \/ t[<<a>>].visits > t[<<b>>].visits
    \/ t[<<a>>].visits = t[<<b>>].visits /\ t[<<a>>].policy > t[<<b>>].policy
    \/ t[<<a>>].visits = t[<<b>>].visits /\ t[<<a>>].policy = t[<<b>>].policy /\ a < b

PickMove(t, exploitation) ==
    LET kids == Children(t, << >>)
    IN  IF exploitation
        THEN {k \in kids : \A j \in kids \ {k} : Better(t, k, j)}
        ELSE {k \in kids : t[<<k>>].visits > 0}

\* Player::apply_dirichlet: noise is mixed into the priors of the root's
\* children; the trees it can leave, the noised priors drawn from two levels.
NoisedPriors == {1, 2}
ApplyDirichlet(t) ==
    LET kids == Children(t, << >>)
    IN  {[q \in DOMAIN t |->
            IF Len(q) = 1 THEN [t[q] EXCEPT !.policy = f[q[1]]] ELSE t[q]]
         : f \in [kids -> NoisedPriors]}

\* ------------------------------------------------------------------ debug.rs
\* self.children.get(&turn): the child as a tree of its own.
Child(t, k) == [p \in {Tail(q) : q \in {r \in DOMAIN t : Len(r) >= 1 /\ r[1] = k}} |->
                   t[<<k>> \o p]]

\* The node a path of turns leads to, as a tree of its own.
RECURSIVE NodeAt(_, _)
NodeAt(t, q) == IF q = << >> THEN t ELSE NodeAt(Child(t, Head(q)), Tail(q))

\* Node::is_game_ongoing
is_game_ongoing(t) == t[<< >>].result = Ongoing

\* The early return of Node::continuation without self.children.is_empty().
ContinuationStopsUnchecked(t, min_visit_count, depth) ==
    \/ depth = 0
    \/ (is_game_ongoing(t) /\ t[<< >>].visits <= min_visit_count)

\* The early return of Node::continuation.
ContinuationStops(t, min_visit_count, depth) ==
    \/ depth = 0
    \/ Children(t, << >>) = {}
    \/ (is_game_ongoing(t) /\ t[<< >>].visits <= min_visit_count)

\* Node::continuation with the move picked by pick_move(false).
RECURSIVE continuationSampled(_, _, _)
continuationSampled(t, min_visit_count, depth) ==
    IF ContinuationStops(t, min_visit_count, depth)
    THEN {<< >>}
    ELSE UNION {{<<turn_>> \o rest :
                    rest \in continuationSampled(Child(t, turn_), min_visit_count, depth - 1)}
                : turn_ \in PickMove(t, FALSE)}

\* Node::continuation with the depth passed on unchanged.
RECURSIVE continuationSameDepth(_, _, _)
continuationSameDepth(t, min_visit_count, depth) ==
    IF ContinuationStops(t, min_visit_count, depth)
    THEN {<< >>}
    ELSE UNION {{<<turn_>> \o rest :
                    rest \in continuationSameDepth(Child(t, turn_), min_visit_count, depth)}
                : turn_ \in PickMove(t, TRUE)}

\* Node::continuation: the sequences a call can return, one for each turn
\* pick_move(true) can give; none when pick_move has nothing to pick.
RECURSIVE continuation(_, _, _)
continuation(t, min_visit_count, depth) ==
    IF ContinuationStops(t, min_visit_count, depth)
    THEN {<< >>}
    ELSE UNION {{<<turn_>> \o rest :
                    rest \in continuation(Child(t, turn_), min_visit_count, depth - 1)}
                : turn_ \in PickMove(t, TRUE)}

\* Node::continuation panics: past the early return pick_move has no child to
\* pick, or children.get(&turn) is None and the unwrap fails, in this call or
\* in the call on the child.
RECURSIVE continuationPanics(_, _, _)
continuationPanics(t, min_visit_count, depth) ==
    /\ ~ContinuationStops(t, min_visit_count, depth)
    /\ \/ PickMove(t, TRUE) = {}
       \/ \E turn_ \in PickMove(t, TRUE) :
            \/ turn_ \notin Children(t, << >>)
            \/ continuationPanics(Child(t, turn_), min_visit_count, depth - 1)

\* Option<usize>
None == [some |-> FALSE, n |-> 0]
Some(n) == [some |-> TRUE, n |-> n]

\* The constants of Node::debug.
MAX_CONTINUATION_LEN == 8
MIN_VISIT_COUNT == 10

\* The orders self.children.iter() can give the children in.
IterOrders(t) ==
    LET kids == Children(t, << >>)
    IN  {o \in [1..Cardinality(kids) -> kids] : \A a, b \in DOMAIN o : o[a] = o[b] => a = b}

\* p.sort_by_key(|(_turn, node)| node.visits): a stable sort, ascending.
RECURSIVE InsertByVisits(_, _, _)
InsertByVisits(t, sorted, k) ==
    IF sorted = << >> THEN <<k>>
    ELSE LET last == sorted[Len(sorted)]
         IN  IF t[<<last>>].visits <= t[<<k>>].visits
             THEN Append(sorted, k)
             ELSE Append(InsertByVisits(t, SubSeq(sorted, 1, Len(sorted) - 1), k), last)

RECURSIVE SortByVisits(_, _)
SortByVisits(t, p) ==
    IF p = << >> THEN << >>
    ELSE InsertByVisits(t, SortByVisits(t, SubSeq(p, 1, Len(p) - 1)), p[Len(p)])

\* p.reverse()
Reverse(p) == [j \in 1..Len(p) |-> p[Len(p) + 1 - j]]

\* .take(limit.unwrap_or(usize::MAX)); usize::MAX is above every length.
Take(p, limit) ==
    IF limit.some /\ limit.n < Len(p) THEN SubSeq(p, 1, limit.n) ELSE p

\* One formatted row of Node::debug (the expected reward is not in the model).
DebugRow(t, k) ==
    LET pv == CHOOSE c \in continuation(Child(t, k), MIN_VISIT_COUNT, MAX_CONTINUATION_LEN) : TRUE
    IN  [turn |-> ToPTN(k),
         visits |-> t[<<k>>].visits,
         policy |-> t[<<k>>].policy,
         continuation |-> [j \in 1..Len(pv) |-> ToPTN(pv[j])]]

Header == "turn      visited   reward   policy | continuation"

\* Node::debug with the children sorted but not reversed.
debugAscending(t, order, limit) ==
    [header |-> Header,
     rows |-> IF IsPolicyInitialized(t)
              THEN LET p == Take(SortByVisits(t, order), limit)
                   IN  [j \in 1..Len(p) |-> DebugRow(t, p[j])]
              ELSE << >>]

\* Node::debug, the children iterated in the given order.
debug(t, order, limit) ==
    [header |-> Header,
     rows |-> IF IsPolicyInitialized(t)
              THEN LET p == Take(Reverse(SortByVisits(t, order)), limit)
                   IN  [j \in 1..Len(p) |-> DebugRow(t, p[j])]
              ELSE << >>]

\* Node::debug panics: the continuation of a child it makes a row for does.
debugPanics(t, order, limit) ==
    /\ IsPolicyInitialized(t)
    /\ LET p == Take(Reverse(SortByVisits(t, order)), limit)
       IN  \E j \in 1..Len(p) :
              continuationPanics(Child(t, p[j]), MIN_VISIT_COUNT, MAX_CONTINUATION_LEN)

\* ------------------------------------------------------------------ state
VARIABLES
    prog,               \* the entry point that runs
    model_ok,           \* whether the model file at model_path can be loaded
    network,            \* the network the search uses (pit_game: the new one)
    old_network,        \* pit_game: the old network
    colour,             \* play: the human's colour
    seconds_per_move,   \* play: the network's thinking time
    pc,                 \* the position of the main thread (the worker in playtak)
    game,               \* the Game
    gameTurns,          \* the turns Game::play has accepted, in order
    node,               \* the search tree (pit_game: of new_player)
    nodeTurns,          \* the turns the tree has been advanced by
    turn,               \* the turn picked or received
    i,                  \* rollouts done in the running batch
    batches,            \* batches of rollouts completed
    rollouts,           \* rollouts done on the current position
    out,                \* the last line the main thread printed
    chan,               \* play: the channel from the input thread
    thread,             \* play: the position of the input thread
    tturn,              \* play: the turn the input thread has parsed
    sent,               \* play: turns the spawned input thread has sent
    recvd,              \* play: turns received from the spawned input thread
    node2,              \* pit_game: the search tree of old_player
    node2Turns,         \* pit_game: the turns old_player's tree has been advanced by
    my_colour,          \* pit_game: the colour the new network plays
    openings,           \* pit_game: the opening of each game begun
    results,            \* pit_game: the result of each game ended
    seek_as_white,      \* playtak: the colour the client seeks
    cpc,                \* playtak: the position of the client (the main thread)
    seeks,              \* playtak: seeks created
    started,            \* playtak: games begun on the server
    sgame,              \* playtak: the game as the server has it
    pairs,              \* playtak: channel pairs sent to the worker and not yet received
    wgame,              \* playtak: the game whose channels the worker holds
    to_worker,          \* playtak: per game, the opponent's moves on their way to the worker
    to_client,          \* playtak: per game, the worker's moves on their way to the client
    client_dropped,     \* playtak: per game, the client has dropped its channel ends
    worker_dropped,     \* playtak: per game, the worker has dropped its channel ends
    wlog,               \* playtak: the moves the worker took and sent in its game, in order
    clog,               \* playtak: what the client forwarded and got back in its game, in order
    model_path,         \* train: no path, "random", or the path of a model file
    called,             \* debug.rs: the function called on the tree, if any
    arg_min,            \* debug.rs: the min_visit_count given to continuation
    arg_depth,          \* debug.rs: the depth given to continuation
    arg_limit,          \* debug.rs: the limit given to debug
    turns,              \* debug.rs: what continuation returned
    report,             \* debug.rs: what debug returned
    examples,           \* train: the example buffer
    added,              \* train: every example ever put into the buffer, in order
    new_network,        \* train: the candidate network
    tallied,            \* train: the outputs of the pit matches tallied so far, in order
    pit_result,         \* train: the PitResult
    saved,              \* train: the networks saved under models/, in order
    iters               \* train: iterations of the training loop completed

inputs == <<prog, model_ok, network, old_network, colour, seconds_per_move,
            seek_as_white, model_path>>
core == <<game, gameTurns, node, nodeTurns>>
loopv == <<turn, i, batches, rollouts>>
io == <<chan, thread, tturn, sent, recvd>>
pitv == <<node2, node2Turns, my_colour, openings, results>>
chans == <<pairs, wgame, to_worker, to_client, client_dropped, worker_dropped>>
logs == <<wlog, clog>>
ptv == <<cpc, seeks, started, sgame, chans, logs>>
dbgv == <<called, arg_min, arg_depth, arg_limit, turns, report>>
trainv == <<examples, added, new_network, tallied, pit_result, saved, iters>>
vars == <<inputs, pc, core, loopv, out, io, pitv, ptv, dbgv, trainv>>

\* What the steps of one program leave alone of the others.
notPlay == <<pitv, ptv, dbgv, trainv>>
notExample == <<io, pitv, ptv, dbgv, trainv>>
notPit == <<io, ptv, dbgv, trainv>>
notPlaytak == <<io, pitv, dbgv, trainv>>
notTrain == <<io, pitv, ptv, dbgv>>

Programs == {"play", "example_game", "pit_game", "playtak", "train"}

GameIds == 1..MaxGames

\* No turn yet: a square off the board.
NoTurn == N * N + 1

\* The lines a user may type: the squares of the board and a line that is
\* no PTN.
Lines == {ToPTN(t) : t \in Turns} \cup {<<"?">>}

\* Rollouts that fit into the time of one turn where the loop runs them one
\* by one.
RolloutBudget == BatchSize * MaxBatches

\* PitResult::default
PitResultDefault == [wins |-> 0, draws |-> 0, losses |-> 0]

\* train has not begun.
NoTraining ==
    /\ examples = << >>
    /\ added = << >>
    /\ new_network = "uniform"
    /\ tallied = << >>
    /\ pit_result = PitResultDefault
    /\ saved = << >>
    /\ iters = 0

\* Nothing of debug.rs has been called.
NoCall ==
    /\ called = "none"
    /\ arg_min = 0
    /\ arg_depth = 0
    /\ arg_limit = None
    /\ turns = << >>
    /\ report = [header |-> "", rows |-> << >>]

Init ==
    /\ prog \in Programs
    /\ model_ok \in (IF prog \in {"play", "playtak", "train"} THEN BOOLEAN ELSE {TRUE})
    /\ network \in Networks
    /\ old_network \in (IF prog = "pit_game" THEN Networks ELSE {"uniform"})
    /\ colour \in (IF prog = "play" THEN Colours ELSE {White})
    /\ seconds_per_move \in (IF prog = "play" THEN {0, 1} ELSE {1})
    /\ pc = "start"
    /\ game = NewGame
    /\ gameTurns = << >>
    /\ node = DefaultNode
    /\ nodeTurns = << >>
    /\ turn = NoTurn
    /\ i = 0
    /\ batches = 0
    /\ rollouts = 0
    /\ out = ""
    /\ chan = << >>
    /\ thread = "none"
    /\ tturn = NoTurn
    /\ sent = 0
    /\ recvd = 0
    /\ node2 = DefaultNode
    /\ node2Turns = << >>
    /\ my_colour = White
    /\ openings = << >>
    /\ results = << >>
    /\ seek_as_white \in (IF prog = "playtak" THEN BOOLEAN ELSE {FALSE})
    /\ cpc = (IF prog = "playtak" THEN "connect" ELSE "none")
    /\ seeks = 0
    /\ started = 0
    /\ sgame = NewGame
    /\ pairs = << >>
    /\ wgame = 0
    /\ to_worker = [g \in GameIds |-> << >>]
    /\ to_client = [g \in GameIds |-> << >>]
    /\ client_dropped = [g \in GameIds |-> FALSE]
    /\ worker_dropped = [g \in GameIds |-> FALSE]
    /\ wlog = << >>
    /\ clog = << >>
    /\ model_path \in (IF prog = "train" THEN {"None", "random", "path"} ELSE {"path"})
    /\ NoCall
    /\ NoTraining

\* ------------------------------------------------------------------ play
net_colour == next(colour)

\* Network::<5>::load(&model_path).unwrap_or_else(panic), then the fresh
\* game and tree.
PlayLoad ==
    /\ prog = "play" /\ pc = "start"
    /\ IF model_ok
       THEN pc' = "loop" /\ out' = out
       ELSE pc' = "panic" /\ out' = "couldn't load model"
    /\ UNCHANGED <<inputs, core, loopv, io, notPlay>>

\* PlayLoopNet as a loop that does not look at the result.
PlayLoopNetUnguarded ==
    /\ prog = "play" /\ pc = "loop"
    /\ game.to_move = net_colour
    /\ pc' = "net_clock"
    /\ UNCHANGED <<inputs, core, loopv, out, io, notPlay>>

\* while matches!(game.winner(), Ongoing), the network to move: start_turn.
PlayLoopNet ==
    /\ prog = "play" /\ pc = "loop"
    /\ GameWinner(game) = Ongoing
    /\ game.to_move = net_colour
    /\ pc' = "net_clock"
    /\ UNCHANGED <<inputs, core, loopv, out, io, notPlay>>

\* The clock of the network's turn has not run out: a batch begins.
PlayNetClock ==
    /\ prog = "play" /\ pc = "net_clock"
    /\ seconds_per_move > 0
    /\ batches < MaxBatches
    /\ pc' = "net_batch"
    /\ i' = 0
    /\ UNCHANGED <<inputs, core, turn, batches, rollouts, out, io, notPlay>>

\* node.rollout(game.clone(), &network) inside `for _ in 0..100`.
PlayNetRollout ==
    /\ prog = "play" /\ pc = "net_batch"
    /\ i < BatchSize
    /\ \E t \in Rollouts(node, game, network) : node' = t
    /\ i' = i + 1
    /\ rollouts' = rollouts + 1
    /\ IF i + 1 = BatchSize
       THEN pc' = "net_clock" /\ batches' = batches + 1
       ELSE pc' = pc /\ batches' = batches
    /\ UNCHANGED <<inputs, game, gameTurns, nodeTurns, turn, out, io, notPlay>>

\* PlayNetMove with a fresh tree in place of the chosen child's.
PlayNetMoveFreshNode ==
    /\ prog = "play" /\ pc = "net_clock"
    /\ LET picks == PickMove(node, game.ply > 3)
       IN  IF picks = {}
           THEN /\ pc' = "panic"
                /\ UNCHANGED <<core, loopv, out>>
           ELSE \E t \in picks : \E r \in GamePlay(game, t) :
                /\ turn' = t
                /\ out' = "network plays"
                /\ node' = DefaultNode
                /\ nodeTurns' = Append(nodeTurns, t)
                /\ game' = r.game
                /\ rollouts' = 0
                /\ UNCHANGED <<i, batches>>
                /\ IF r.ok
                   THEN pc' = "loop" /\ gameTurns' = Append(gameTurns, t)
                   ELSE pc' = "panic" /\ gameTurns' = gameTurns
    /\ UNCHANGED <<inputs, io, notPlay>>

\* The clock has run out: pick_move, node.play, game.play(turn).unwrap().
PlayNetMove ==
    /\ prog = "play" /\ pc = "net_clock"
    /\ LET picks == PickMove(node, game.ply > 3)
       IN  IF picks = {}
           THEN /\ pc' = "panic"
                /\ UNCHANGED <<core, loopv, out>>
           ELSE \E t \in picks : \E r \in GamePlay(game, t) :
                /\ turn' = t
                /\ out' = "network plays"
                /\ node' = NodePlay(node, t)
                /\ nodeTurns' = Append(nodeTurns, t)
                /\ game' = r.game
                /\ rollouts' = 0
                /\ UNCHANGED <<i, batches>>
                /\ IF r.ok
                   THEN pc' = "loop" /\ gameTurns' = Append(gameTurns, t)
                   ELSE pc' = "panic" /\ gameTurns' = gameTurns
    /\ UNCHANGED <<inputs, io, notPlay>>

\* The human to move: a channel and a thread that reads the move.
PlayLoopHuman ==
    /\ prog = "play" /\ pc = "loop"
    /\ GameWinner(game) = Ongoing
    /\ game.to_move # net_colour
    /\ pc' = "ponder"
    /\ chan' = << >>
    /\ thread' = "reading"
    /\ tturn' = NoTurn
    /\ sent' = 0
    /\ recvd' = 0
    /\ UNCHANGED <<inputs, core, loopv, out, notPlay>>

\* The input thread reads a line: a turn ends its loop, anything else is
\* answered with the parse error and read again.
InputRead ==
    /\ prog = "play" /\ thread = "reading"
    /\ \E line \in Lines :
         LET r == FromPTN(line)
         IN  IF r.ok
             THEN thread' = "parsed" /\ tturn' = r.turn
             ELSE thread' = thread /\ tturn' = tturn
    /\ UNCHANGED <<inputs, pc, core, loopv, out, chan, sent, recvd, notPlay>>

\* InputSend with the send inside the reading loop.
InputSendInLoop ==
    /\ prog = "play" /\ thread = "parsed"
    /\ chan' = Append(chan, tturn)
    /\ sent' = sent + 1
    /\ thread' = "reading"
    /\ UNCHANGED <<inputs, pc, core, loopv, out, tturn, recvd, notPlay>>

\* tx.send(turn).unwrap(), and the thread ends.
InputSend ==
    /\ prog = "play" /\ thread = "parsed"
    /\ chan' = Append(chan, tturn)
    /\ sent' = sent + 1
    /\ thread' = "exited"
    /\ UNCHANGED <<inputs, pc, core, loopv, out, tturn, recvd, notPlay>>

\* read_line fails and its unwrap ends the thread: the sender is dropped
\* with nothing sent.
InputDie ==
    /\ prog = "play" /\ thread = "reading"
    /\ thread' = "dead"
    /\ UNCHANGED <<inputs, pc, core, loopv, out, chan, tturn, sent, recvd, notPlay>>

\* rx.try_recv() gives the turn.
PlayRecv ==
    /\ prog = "play" /\ pc = "ponder"
    /\ chan # << >>
    /\ turn' = Head(chan)
    /\ chan' = Tail(chan)
    /\ recvd' = recvd + 1
    /\ pc' = "try"
    /\ UNCHANGED <<inputs, core, i, batches, rollouts, out, thread, tturn, sent, notPlay>>

\* PlayPonder that gives up once the channel is disconnected.
PlayPonderUntilDisconnected ==
    /\ prog = "play" /\ pc = "ponder"
    /\ chan = << >>
    /\ batches < MaxBatches
    /\ pc' = IF thread = "dead" THEN "panic" ELSE "ponder_batch"
    /\ i' = 0
    /\ UNCHANGED <<inputs, core, turn, batches, rollouts, out, io, notPlay>>

\* rx.try_recv() gives Err (empty or disconnected): a batch of pondering.
PlayPonder ==
    /\ prog = "play" /\ pc = "ponder"
    /\ chan = << >>
    /\ batches < MaxBatches
    /\ pc' = "ponder_batch"
    /\ i' = 0
    /\ UNCHANGED <<inputs, core, turn, batches, rollouts, out, io, notPlay>>

\* PlayPonderRollout with the channel polled after every rollout.
PlayPonderRolloutPolls ==
    /\ prog = "play" /\ pc = "ponder_batch"
    /\ i < BatchSize
    /\ \E t \in Rollouts(node, game, network) : node' = t
    /\ i' = i + 1
    /\ rollouts' = rollouts + 1
    /\ pc' = "ponder"
    /\ batches' = IF i + 1 = BatchSize THEN batches + 1 ELSE batches
    /\ UNCHANGED <<inputs, game, gameTurns, nodeTurns, turn, out, io, notPlay>>

\* node.rollout(game.clone(), &network) inside `for _ in 0..100`, then back
\* to try_recv.
PlayPonderRollout ==
    /\ prog = "play" /\ pc = "ponder_batch"
    /\ i < BatchSize
    /\ \E t \in Rollouts(node, game, network) : node' = t
    /\ i' = i + 1
    /\ rollouts' = rollouts + 1
    /\ IF i + 1 = BatchSize
       THEN pc' = "ponder" /\ batches' = batches + 1
       ELSE pc' = pc /\ batches' = batches
    /\ UNCHANGED <<inputs, game, gameTurns, nodeTurns, turn, out, io, notPlay>>

\* PlayTry without node.play in the Ok arm.
PlayTryKeepsRoot ==
    /\ prog = "play" /\ pc = "try"
    /\ \E r \in GamePlay(game, turn) :
         LET backup == game
         IN  IF r.ok
             THEN /\ game' = r.game
                  /\ gameTurns' = Append(gameTurns, turn)
                  /\ rollouts' = 0
                  /\ UNCHANGED <<node, nodeTurns, out>>
             ELSE /\ game' = backup
                  /\ out' = "illegal turn"
                  /\ UNCHANGED <<gameTurns, node, nodeTurns, rollouts>>
    /\ pc' = "loop"
    /\ UNCHANGED <<inputs, turn, i, batches, io, notPlay>>

\* PlayTry without `game = backup` in the Err arm.
PlayTryNoRestore ==
    /\ prog = "play" /\ pc = "try"
    /\ \E r \in GamePlay(game, turn) :
         IF r.ok
         THEN /\ game' = r.game
              /\ gameTurns' = Append(gameTurns, turn)
              /\ node' = NodePlay(node, turn)
              /\ nodeTurns' = Append(nodeTurns, turn)
              /\ rollouts' = 0
              /\ out' = out
         ELSE /\ game' = r.game
              /\ out' = "illegal turn"
              /\ UNCHANGED <<gameTurns, node, nodeTurns, rollouts>>
    /\ pc' = "loop"
    /\ UNCHANGED <<inputs, turn, i, batches, io, notPlay>>

\* let backup = game.clone(); match game.play(turn.clone()): Ok commits the
\* turn to the tree, Err prints the error and restores the backup.
PlayTry ==
    /\ prog = "play" /\ pc = "try"
    /\ \E r \in GamePlay(game, turn) :
         LET backup == game
         IN  IF r.ok
             THEN /\ game' = r.game
                  /\ gameTurns' = Append(gameTurns, turn)
                  /\ node' = NodePlay(node, turn)
                  /\ nodeTurns' = Append(nodeTurns, turn)
                  /\ rollouts' = 0
                  /\ out' = out
             ELSE /\ game' = backup
                  /\ out' = "illegal turn"
                  /\ UNCHANGED <<gameTurns, node, nodeTurns, rollouts>>
    /\ pc' = "loop"
    /\ UNCHANGED <<inputs, turn, i, batches, io, notPlay>>

\* The loop ends: the result is printed.
PlayEnd ==
    /\ prog = "play" /\ pc = "loop"
    /\ GameWinner(game) # Ongoing
    /\ pc' = "done"
    /\ out' = "game ended"
    /\ UNCHANGED <<inputs, core, loopv, io, notPlay>>

PlayNext ==
    \/ PlayLoad \/ PlayLoopNet \/ PlayNetClock \/ PlayNetRollout \/ PlayNetMove
    \/ PlayLoopHuman \/ InputRead \/ InputSend \/ InputDie
    \/ PlayRecv \/ PlayPonder \/ PlayPonderRollout \/ PlayTry \/ PlayEnd

\* ------------------------------------------------------------------ example_game
\* The opening: a flat in the corner Pos {0, 0}, then one in the adjacent or
\* the diagonal corner, both played with unwrap; then the fresh tree.
ExampleOpening ==
    /\ prog = "example_game" /\ pc = "start"
    /\ \E y \in {0, N - 1} :
         LET turn0 == Sq(0, 0)
             turn1 == Sq(N - 1, y)
             g1 == Applied(game, turn0)
         IN  /\ Legal(game, turn0) /\ Legal(g1, turn1)
             /\ game' = Applied(g1, turn1)
             /\ gameTurns' = <<turn0, turn1>>
             /\ nodeTurns' = <<turn0, turn1>>
    /\ node' = DefaultNode
    /\ pc' = "loop"
    /\ UNCHANGED <<inputs, loopv, out, notExample>>

\* while matches!(game.winner(), Ongoing): start_turn.
ExampleLoop ==
    /\ prog = "example_game" /\ pc = "loop"
    /\ GameWinner(game) = Ongoing
    /\ pc' = "clock"
    /\ i' = 0
    /\ UNCHANGED <<inputs, core, turn, batches, rollouts, out, notExample>>

\* The clock has not run out: node.rollout(game.clone(), network).
ExampleRollout ==
    /\ prog = "example_game" /\ pc = "clock"
    /\ i < RolloutBudget
    /\ \E t \in Rollouts(node, game, network) : node' = t
    /\ i' = i + 1
    /\ rollouts' = rollouts + 1
    /\ UNCHANGED <<inputs, pc, game, gameTurns, nodeTurns, turn, batches, out, notExample>>

\* The clock has run out: pick_move(true), node.play, game.play(turn).unwrap().
ExampleMove ==
    /\ prog = "example_game" /\ pc = "clock"
    /\ LET picks == PickMove(node, TRUE)
       IN  IF picks = {}
           THEN /\ pc' = "panic"
                /\ UNCHANGED <<core, turn, rollouts>>
           ELSE \E t \in picks : \E r \in GamePlay(game, t) :
                /\ turn' = t
                /\ node' = NodePlay(node, t)
                /\ nodeTurns' = Append(nodeTurns, t)
                /\ game' = r.game
                /\ rollouts' = 0
                /\ IF r.ok
                   THEN pc' = "loop" /\ gameTurns' = Append(gameTurns, t)
                   ELSE pc' = "panic" /\ gameTurns' = gameTurns
    /\ UNCHANGED <<inputs, i, batches, out, notExample>>

\* The loop ends: the result and the board are printed.
ExampleEnd ==
    /\ prog = "example_game" /\ pc = "loop"
    /\ GameWinner(game) # Ongoing
    /\ pc' = "done"
    /\ out' = "result"
    /\ UNCHANGED <<inputs, core, loopv, notExample>>

ExampleNext == ExampleOpening \/ ExampleLoop \/ ExampleRollout \/ ExampleMove \/ ExampleEnd

\* ------------------------------------------------------------------ pit_game
\* Game::opening(seed): a flat in the corner the seed names and the reply in
\* the corner mirrored across the board.
Seeds == {0, 1}
Corners == <<Sq(0, 0), Sq(N - 1, 0), Sq(0, N - 1), Sq(N - 1, N - 1)>>
MirrorX(s) == Sq(N - 1 - PosX(s), PosY(s))
Opening(seed) == LET c == Corners[(seed % 4) + 1] IN <<c, MirrorX(c)>>

\* Player::play_move: the player's tree advances by the turn.
PlayMove(t, k) == NodePlay(t, k)

\* The head of `for my_colour in [White, Black]`: a new game, its opening
\* from game.opening(rand::random()), and a Player for each network.
PitStart ==
    /\ prog = "pit_game" /\ pc = "start"
    /\ \E seed \in Seeds :
         LET opening == Opening(seed)
             g1 == Applied(NewGame, opening[1])
         IN  /\ game' = Applied(g1, opening[2])
             /\ gameTurns' = opening
             /\ openings' = Append(openings, opening)
             /\ nodeTurns' = opening
             /\ node2Turns' = opening
    /\ node' = DefaultNode
    /\ node2' = DefaultNode
    /\ pc' = "loop"
    /\ UNCHANGED <<inputs, loopv, out, my_colour, results, notPit>>

\* PitMove with play_move on the picking player alone.
PitMoveOnePlayer ==
    /\ prog = "pit_game" /\ pc = "loop"
    /\ GameWinner(game) = Ongoing
    /\ \E t1 \in (IF game.to_move = my_colour
                  THEN RolloutsN(node, game, network, BatchSize) ELSE {node}) :
       \E t2 \in (IF game.to_move = my_colour
                  THEN {node2} ELSE RolloutsN(node2, game, old_network, BatchSize)) :
         LET mine == game.to_move = my_colour
             picks == PickMove(IF mine THEN t1 ELSE t2, TRUE)
         IN  IF picks = {}
             THEN /\ pc' = "panic"
                  /\ node' = t1 /\ node2' = t2
                  /\ UNCHANGED <<game, gameTurns, nodeTurns, node2Turns, turn>>
             ELSE \E k \in picks : \E r \in GamePlay(game, k) :
                  /\ turn' = k
                  /\ node' = IF mine THEN PlayMove(t1, k) ELSE t1
                  /\ nodeTurns' = IF mine THEN Append(nodeTurns, k) ELSE nodeTurns
                  /\ node2' = IF mine THEN t2 ELSE PlayMove(t2, k)
                  /\ node2Turns' = IF mine THEN node2Turns ELSE Append(node2Turns, k)
                  /\ game' = r.game
                  /\ IF r.ok
                     THEN pc' = "loop" /\ gameTurns' = Append(gameTurns, k)
                     ELSE pc' = "panic" /\ gameTurns' = gameTurns
    /\ UNCHANGED <<inputs, i, batches, rollouts, out, my_colour, openings, results, notPit>>

\* One pass of `while matches!(game.winner(), Ongoing)`: the player to move
\* does its rollouts and picks, both players play the turn, then the game.
PitMove ==
    /\ prog = "pit_game" /\ pc = "loop"
    /\ GameWinner(game) = Ongoing
    /\ \E t1 \in (IF game.to_move = my_colour
                  THEN RolloutsN(node, game, network, BatchSize) ELSE {node}) :
       \E t2 \in (IF game.to_move = my_colour
                  THEN {node2} ELSE RolloutsN(node2, game, old_network, BatchSize)) :
         LET picks == PickMove(IF game.to_move = my_colour THEN t1 ELSE t2, TRUE)
         IN  IF picks = {}
             THEN /\ pc' = "panic"
                  /\ node' = t1 /\ node2' = t2
                  /\ UNCHANGED <<game, gameTurns, nodeTurns, node2Turns, turn>>
             ELSE \E k \in picks : \E r \in GamePlay(game, k) :
                  /\ turn' = k
                  /\ node' = PlayMove(t1, k)
                  /\ nodeTurns' = Append(nodeTurns, k)
                  /\ node2' = PlayMove(t2, k)
                  /\ node2Turns' = Append(node2Turns, k)
                  /\ game' = r.game
                  /\ IF r.ok
                     THEN pc' = "loop" /\ gameTurns' = Append(gameTurns, k)
                     ELSE pc' = "panic" /\ gameTurns' = gameTurns
    /\ UNCHANGED <<inputs, i, batches, rollouts, out, my_colour, openings, results, notPit>>

\* The game is over: its result is pushed and the next colour begins, or
\* both results are returned.
PitEnd ==
    /\ prog = "pit_game" /\ pc = "loop"
    /\ GameWinner(game) # Ongoing
    /\ results' = Append(results, GameWinner(game))
    /\ IF my_colour = White
       THEN pc' = "start" /\ my_colour' = Black
       ELSE pc' = "done" /\ my_colour' = my_colour
    /\ UNCHANGED <<inputs, core, loopv, out, node2, node2Turns, openings, notPit>>

PitNext == PitStart \/ PitMove \/ PitEnd

\* ------------------------------------------------------------------ playtak
\* "e5" on the 5x5 board: the far corner.
WHITE_FIRST_MOVE == ToPTN(Sq(N - 1, N - 1))

\* The four corners, each answered in the opposite corner.
OPENING_BOOK ==
    {<<ToPTN(Sq(0, 0)), ToPTN(Sq(N - 1, N - 1))>>,
     <<ToPTN(Sq(0, N - 1)), ToPTN(Sq(N - 1, 0))>>,
     <<ToPTN(Sq(N - 1, 0)), ToPTN(Sq(0, N - 1))>>,
     <<ToPTN(Sq(N - 1, N - 1)), ToPTN(Sq(0, 0))>>}

BotColour == IF seek_as_white THEN White ELSE Black

\* The process is gone once the main thread has panicked or has been
\* interrupted, and the worker with it.
Running == prog = "playtak" /\ cpc \notin {"shutdown", "panic"}

\* The worker's ends of the channels of game g are gone.
WorkerGone(g) == worker_dropped[g] \/ pc = "panic"

\* The entries of wlog and clog.
Took(m, ongoing) == [ev |-> "recv", move |-> m, ongoing |-> ongoing]
Sent(m) == [ev |-> "send", move |-> m, ongoing |-> TRUE]
Forwarded(m) == [ev |-> "fwd", move |-> m]
Played(m) == [ev |-> "play", move |-> m]
Closed == [ev |-> "none", move |-> << >>]

\* The worker thread: Network::<5>::load(..).unwrap_or_else(panic).
WorkerLoad ==
    /\ Running /\ pc = "start"
    /\ pc' = IF model_ok THEN "wait_game" ELSE "panic"
    /\ UNCHANGED <<inputs, core, loopv, out, ptv, notPlaytak>>

\* while let Ok((tx, rx)) = channel_rx.recv(): a new game, White's first
\* move when seeking as White, and a Player with that opening.
WorkerRecvGame ==
    /\ Running /\ pc = "wait_game"
    /\ pairs # << >>
    /\ wgame' = Head(pairs)
    /\ pairs' = Tail(pairs)
    /\ LET first == FromPTN(WHITE_FIRST_MOVE).turn
           opening == IF seek_as_white THEN <<first>> ELSE << >>
       IN  /\ game' = IF seek_as_white THEN Applied(NewGame, first) ELSE NewGame
           /\ gameTurns' = opening
           /\ nodeTurns' = opening
    /\ node' = DefaultNode
    /\ rollouts' = 0
    /\ wlog' = << >>
    /\ pc' = "turn_loop"
    /\ UNCHANGED <<inputs, turn, i, batches, out, cpc, seeks, started, sgame,
                   to_worker, to_client, client_dropped, worker_dropped, clog, notPlaytak>>

\* WorkerRecvMove without the break on a finished game: the worker stays in
\* the turn loop and keeps its channel ends.
WorkerRecvMoveNoBreak ==
    /\ Running /\ pc = "turn_loop"
    /\ to_worker[wgame] # << >>
    /\ LET m == Head(to_worker[wgame])
           parsed == FromPTN(m)
           t == parsed.turn
           g1 == Applied(game, t)
           book == {o \in OPENING_BOOK : o[1] = m}
       IN  /\ to_worker' = [to_worker EXCEPT ![wgame] = Tail(@)]
           /\ turn' = t
           /\ IF ~parsed.ok
              THEN /\ pc' = "panic"
                   /\ wlog' = Append(wlog, Took(m, TRUE))
                   /\ UNCHANGED <<core, rollouts, to_client, worker_dropped>>
              ELSE IF ~Legal(game, t)
              THEN /\ pc' = "panic"
                   /\ wlog' = Append(wlog, Took(m, TRUE))
                   /\ node' = PlayMove(node, t)
                   /\ nodeTurns' = Append(nodeTurns, t)
                   /\ UNCHANGED <<game, gameTurns, rollouts, to_client, worker_dropped>>
              ELSE IF GameWinner(g1) # Ongoing
              THEN /\ pc' = "turn_loop"
                   /\ wlog' = Append(wlog, Took(m, FALSE))
                   /\ node' = PlayMove(node, t)
                   /\ nodeTurns' = Append(nodeTurns, t)
                   /\ game' = g1
                   /\ gameTurns' = Append(gameTurns, t)
                   /\ rollouts' = 0
                   /\ UNCHANGED worker_dropped
                   /\ UNCHANGED to_client
              ELSE IF g1.ply = 1 /\ book # {}
              THEN LET reply == (CHOOSE o \in book : TRUE)[2]
                       rt == FromPTN(reply).turn
                   IN  /\ node' = PlayMove(PlayMove(node, t), rt)
                       /\ nodeTurns' = nodeTurns \o <<t, rt>>
                       /\ rollouts' = 0
                       /\ UNCHANGED worker_dropped
                       /\ IF client_dropped[wgame]
                          THEN /\ pc' = "panic"
                               /\ wlog' = Append(wlog, Took(m, TRUE))
                               /\ game' = g1
                               /\ gameTurns' = Append(gameTurns, t)
                               /\ UNCHANGED to_client
                          ELSE /\ to_client' = [to_client EXCEPT ![wgame] = Append(@, reply)]
                               /\ wlog' = wlog \o <<Took(m, TRUE), Sent(reply)>>
                               /\ game' = Applied(g1, rt)
                               /\ gameTurns' = gameTurns \o <<t, rt>>
                               /\ pc' = IF Legal(g1, rt) THEN "turn_loop" ELSE "panic"
              ELSE /\ pc' = "think"
                   /\ wlog' = Append(wlog, Took(m, TRUE))
                   /\ node' \in (IF g1.ply < 16
                                 THEN ApplyDirichlet(PlayMove(node, t))
                                 ELSE {PlayMove(node, t)})
                   /\ nodeTurns' = Append(nodeTurns, t)
                   /\ game' = g1
                   /\ gameTurns' = Append(gameTurns, t)
                   /\ rollouts' = 0
                   /\ UNCHANGED <<to_client, worker_dropped>>
    /\ UNCHANGED <<inputs, i, batches, out, cpc, seeks, started, sgame, pairs, wgame,
                   client_dropped, clog, notPlaytak>>

\* rx.try_recv() gives the opponent's move: it is played on the tree and on
\* the game; a finished game ends the turn loop; at ply 1 a move of the
\* opening book is answered from the book; else noise is applied before
\* ply 16 and the search begins.
WorkerRecvMove ==
    /\ Running /\ pc = "turn_loop"
    /\ to_worker[wgame] # << >>
    /\ LET m == Head(to_worker[wgame])
           parsed == FromPTN(m)
           t == parsed.turn
           g1 == Applied(game, t)
           book == {o \in OPENING_BOOK : o[1] = m}
       IN  /\ to_worker' = [to_worker EXCEPT ![wgame] = Tail(@)]
           /\ turn' = t
           /\ IF ~parsed.ok
              THEN /\ pc' = "panic"
                   /\ wlog' = Append(wlog, Took(m, TRUE))
                   /\ UNCHANGED <<core, rollouts, to_client, worker_dropped>>
              ELSE IF ~Legal(game, t)
              THEN /\ pc' = "panic"
                   /\ wlog' = Append(wlog, Took(m, TRUE))
                   /\ node' = PlayMove(node, t)
                   /\ nodeTurns' = Append(nodeTurns, t)
                   /\ UNCHANGED <<game, gameTurns, rollouts, to_client, worker_dropped>>
              ELSE IF GameWinner(g1) # Ongoing
              THEN /\ pc' = "wait_game"
                   /\ wlog' = Append(wlog, Took(m, FALSE))
                   /\ node' = PlayMove(node, t)
                   /\ nodeTurns' = Append(nodeTurns, t)
                   /\ game' = g1
                   /\ gameTurns' = Append(gameTurns, t)
                   /\ rollouts' = 0
                   /\ worker_dropped' = [worker_dropped EXCEPT ![wgame] = TRUE]
                   /\ UNCHANGED to_client
              ELSE IF g1.ply = 1 /\ book # {}
              THEN LET reply == (CHOOSE o \in book : TRUE)[2]
                       rt == FromPTN(reply).turn
                   IN  /\ node' = PlayMove(PlayMove(node, t), rt)
                       /\ nodeTurns' = nodeTurns \o <<t, rt>>
                       /\ rollouts' = 0
                       /\ UNCHANGED worker_dropped
                       /\ IF client_dropped[wgame]
                          THEN /\ pc' = "panic"
                               /\ wlog' = Append(wlog, Took(m, TRUE))
                               /\ game' = g1
                               /\ gameTurns' = Append(gameTurns, t)
                               /\ UNCHANGED to_client
                          ELSE /\ to_client' = [to_client EXCEPT ![wgame] = Append(@, reply)]
                               /\ wlog' = wlog \o <<Took(m, TRUE), Sent(reply)>>
                               /\ game' = Applied(g1, rt)
                               /\ gameTurns' = gameTurns \o <<t, rt>>
                               /\ pc' = IF Legal(g1, rt) THEN "turn_loop" ELSE "panic"
              ELSE /\ pc' = "think"
                   /\ wlog' = Append(wlog, Took(m, TRUE))
                   /\ node' \in (IF g1.ply < 16
                                 THEN ApplyDirichlet(PlayMove(node, t))
                                 ELSE {PlayMove(node, t)})
                   /\ nodeTurns' = Append(nodeTurns, t)
                   /\ game' = g1
                   /\ gameTurns' = Append(gameTurns, t)
                   /\ rollouts' = 0
                   /\ UNCHANGED <<to_client, worker_dropped>>
    /\ UNCHANGED <<inputs, i, batches, out, cpc, seeks, started, sgame, pairs, wgame,
                   client_dropped, clog, notPlaytak>>

\* The thinking time has not run out: player.rollout(&game, 500).
WorkerThink ==
    /\ Running /\ pc = "think"
    /\ batches < MaxBatches
    /\ \E t \in RolloutsN(node, game, network, BatchSize) : node' = t
    /\ batches' = batches + 1
    /\ rollouts' = rollouts + BatchSize
    /\ UNCHANGED <<inputs, pc, game, gameTurns, nodeTurns, turn, i, out, ptv, notPlaytak>>

\* WorkerReply that goes on thinking after it has sent its move.
WorkerReplyKeepsThinking ==
    /\ Running /\ pc = "think"
    /\ LET picks == PickMove(node, TRUE)
       IN  IF picks = {} \/ client_dropped[wgame]
           THEN /\ pc' = "panic"
                /\ UNCHANGED <<game, gameTurns, turn, rollouts, to_client, wlog>>
           ELSE \E t \in picks :
                /\ turn' = t
                /\ to_client' = [to_client EXCEPT ![wgame] = Append(@, ToPTN(t))]
                /\ wlog' = Append(wlog, Sent(ToPTN(t)))
                /\ rollouts' = 0
                /\ IF Legal(game, t)
                   THEN /\ pc' = "think"
                        /\ game' = Applied(game, t)
                        /\ gameTurns' = Append(gameTurns, t)
                   ELSE /\ pc' = "panic"
                        /\ UNCHANGED <<game, gameTurns>>
    /\ UNCHANGED <<inputs, node, nodeTurns, i, batches, out, cpc, seeks, started, sgame,
                   pairs, wgame, to_worker, client_dropped, worker_dropped, clog, notPlaytak>>

\* The thinking time has run out: pick_move, tx.send, game.play(turn).unwrap().
WorkerReply ==
    /\ Running /\ pc = "think"
    /\ LET picks == PickMove(node, TRUE)
       IN  IF picks = {} \/ client_dropped[wgame]
           THEN /\ pc' = "panic"
                /\ UNCHANGED <<game, gameTurns, turn, rollouts, to_client, wlog>>
           ELSE \E t \in picks :
                /\ turn' = t
                /\ to_client' = [to_client EXCEPT ![wgame] = Append(@, ToPTN(t))]
                /\ wlog' = Append(wlog, Sent(ToPTN(t)))
                /\ rollouts' = 0
                /\ IF Legal(game, t)
                   THEN /\ pc' = "turn_loop"
                        /\ game' = Applied(game, t)
                        /\ gameTurns' = Append(gameTurns, t)
                   ELSE /\ pc' = "panic"
                        /\ UNCHANGED <<game, gameTurns>>
    /\ UNCHANGED <<inputs, node, nodeTurns, i, batches, out, cpc, seeks, started, sgame,
                   pairs, wgame, to_worker, client_dropped, worker_dropped, clog, notPlaytak>>

\* rx.try_recv() gives Empty: player.rollout(&game, 100).
WorkerPonder ==
    /\ Running /\ pc = "turn_loop"
    /\ to_worker[wgame] = << >> /\ ~client_dropped[wgame]
    /\ batches < MaxBatches
    /\ \E t \in RolloutsN(node, game, network, BatchSize) : node' = t
    /\ batches' = batches + 1
    /\ rollouts' = rollouts + BatchSize
    /\ UNCHANGED <<inputs, pc, game, gameTurns, nodeTurns, turn, i, out, ptv, notPlaytak>>

\* A rollout walks into a child whose turn the game rejects.
WorkerRolloutPanic ==
    /\ Running
    /\ pc \in {"think", "turn_loop"}
    /\ pc = "turn_loop" => (to_worker[wgame] = << >> /\ ~client_dropped[wgame])
    /\ RolloutPanics(node, game)
    /\ pc' = "panic"
    /\ UNCHANGED <<inputs, core, loopv, out, ptv, notPlaytak>>

\* rx.try_recv() gives Disconnected: the turn loop ends, the analysis is
\* written and the worker waits for the next game.
WorkerDisconnected ==
    /\ Running /\ pc = "turn_loop"
    /\ to_worker[wgame] = << >> /\ client_dropped[wgame]
    /\ worker_dropped' = [worker_dropped EXCEPT ![wgame] = TRUE]
    /\ pc' = "wait_game"
    /\ UNCHANGED <<inputs, core, loopv, out, cpc, seeks, started, sgame, pairs, wgame,
                   to_worker, to_client, client_dropped, notPlaytak, logs>>

\* The main thread: connect_as / connect_guest.
ClientConnect ==
    /\ Running /\ cpc = "connect"
    /\ cpc' = "seek"
    /\ UNCHANGED <<inputs, pc, core, loopv, out, seeks, started, sgame, chans, notPlaytak, logs>>

\* create_seek.
ClientSeek ==
    /\ Running /\ cpc = "seek"
    /\ seeks < MaxGames
    /\ seeks' = seeks + 1
    /\ cpc' = "await_game"
    /\ UNCHANGED <<inputs, pc, core, loopv, out, started, sgame, chans, notPlaytak, logs>>

\* client.game(): a game begins; the channel pair is made and sent to the
\* worker with channel_tx.send(..).unwrap().
ClientGame ==
    /\ Running /\ cpc = "await_game"
    /\ started' = started + 1
    /\ sgame' = NewGame
    /\ clog' = << >>
    /\ IF pc = "panic"
       THEN cpc' = "panic" /\ pairs' = pairs
       ELSE /\ pairs' = Append(pairs, started + 1)
            /\ cpc' = IF seek_as_white THEN "first_move" ELSE "update"
    /\ UNCHANGED <<inputs, pc, core, loopv, out, seeks, wgame, to_worker, to_client,
                   client_dropped, worker_dropped, wlog, notPlaytak>>

\* playtak_game.play(WHITE_FIRST_MOVE).
ClientFirstMove ==
    /\ Running /\ cpc = "first_move"
    /\ sgame' = Applied(sgame, FromPTN(WHITE_FIRST_MOVE).turn)
    /\ cpc' = "update"
    /\ UNCHANGED <<inputs, pc, core, loopv, out, seeks, started, chans, notPlaytak, logs>>

\* GameUpdate::Played(m): the opponent's move goes to the worker with
\* tx.send(m).unwrap().
ClientPlayed ==
    /\ Running /\ cpc = "update"
    /\ GameWinner(sgame) = Ongoing /\ sgame.to_move # BotColour
    /\ \E t \in LegalTurns(sgame) :
         /\ sgame' = Applied(sgame, t)
         /\ IF WorkerGone(started)
            THEN cpc' = "panic" /\ to_worker' = to_worker /\ clog' = clog
            ELSE /\ to_worker' = [to_worker EXCEPT ![started] = Append(@, ToPTN(t))]
                 /\ clog' = Append(clog, Forwarded(ToPTN(t)))
                 /\ cpc' = "await_reply"
    /\ UNCHANGED <<inputs, pc, core, loopv, out, seeks, started, pairs, wgame, to_client,
                   client_dropped, worker_dropped, wlog, notPlaytak>>

\* rx.recv() gives the worker's move, which is played on the server, or
\* None once the worker has dropped its sender.
ClientReply ==
    /\ Running /\ cpc = "await_reply"
    /\ IF to_client[started] # << >>
       THEN LET t == FromPTN(Head(to_client[started])).turn
            IN  /\ to_client' = [to_client EXCEPT ![started] = Tail(@)]
                /\ clog' = Append(clog, Played(Head(to_client[started])))
                /\ sgame' = IF Legal(sgame, t) THEN Applied(sgame, t) ELSE sgame
       ELSE /\ WorkerGone(started)
            /\ clog' = Append(clog, Closed)
            /\ UNCHANGED <<to_client, sgame>>
    /\ cpc' = "update"
    /\ UNCHANGED <<inputs, pc, core, loopv, out, seeks, started, pairs, wgame, to_worker,
                   client_dropped, worker_dropped, wlog, notPlaytak>>

\* GameUpdate::Ended: the game loop ends, the client's channel ends are
\* dropped and the next seek follows.
ClientEnded ==
    /\ Running /\ cpc = "update"
    /\ client_dropped' = [client_dropped EXCEPT ![started] = TRUE]
    /\ cpc' = "seek"
    /\ UNCHANGED <<inputs, pc, core, loopv, out, seeks, started, sgame, pairs, wgame,
                   to_worker, to_client, worker_dropped, notPlaytak, logs>>

\* ctrl_c(): the select ends and the process shuts down.
ClientShutdown ==
    /\ Running
    /\ cpc' = "shutdown"
    /\ UNCHANGED <<inputs, pc, core, loopv, out, seeks, started, sgame, chans, notPlaytak, logs>>

PlaytakNext ==
    \/ WorkerLoad \/ WorkerRecvGame \/ WorkerRecvMove \/ WorkerThink \/ WorkerReply
    \/ WorkerPonder \/ WorkerRolloutPanic \/ WorkerDisconnected
    \/ ClientConnect \/ ClientSeek \/ ClientGame \/ ClientFirstMove \/ ClientPlayed
    \/ ClientReply \/ ClientEnded \/ ClientShutdown

\* ------------------------------------------------------------------ train
\* The network: loaded from the path, or a random one for no path and for
\* "random".
TrainLoad ==
    /\ prog = "train" /\ pc = "start"
    /\ IF model_path \notin {"None", "random"} /\ ~model_ok
       THEN pc' = "panic" /\ out' = "couldn't load model"
       ELSE pc' = "examples" /\ out' = out
    /\ UNCHANGED <<inputs, core, loopv, notTrain, trainv>>

\* The example files are loaded, each with unwrap_or_else(panic), and the
\* training loop begins.
TrainLoadExamples ==
    /\ prog = "train" /\ pc = "examples"
    /\ \E loaded \in BOOLEAN, k \in 0..MaxLoaded :
         IF loaded
         THEN /\ pc' = "training_loop" /\ out' = out
              /\ examples' = [j \in 1..k |-> j]
              /\ added' = [j \in 1..k |-> j]
         ELSE /\ pc' = "panic" /\ out' = "could not load example"
              /\ UNCHANGED <<examples, added>>
    /\ UNCHANGED <<inputs, core, loopv, notTrain, new_network, tallied, pit_result, saved,
                   iters>>

\* PitResult::win_rate: wins / (wins + losses) as a fraction; 0 / 0 is NaN.
win_rate(r) == [num |-> r.wins, den |-> r.wins + r.losses]

\* !(rate <= threshold): true for NaN.
NotAtMost(rate, hundredths) ==
    ~(rate.den # 0 /\ rate.num * 100 <= hundredths * rate.den)

\* rate > threshold on f64, the threshold in hundredths: false for NaN.
GreaterThan(rate, hundredths) ==
    rate.den # 0 /\ rate.num * 100 > hundredths * rate.den

\* PitResult::update
update(r, result, colour_) ==
    IF result.kind = "Winner"
    THEN IF result.colour = colour_
         THEN [r EXCEPT !.wins = r.wins + 1]
         ELSE [r EXCEPT !.losses = r.losses + 1]
    ELSE IF result.kind = "Draw"
    THEN [r EXCEPT !.draws = r.draws + 1]
    ELSE r

\* What a finished game can give.
Finished == {Winner(White, "Road"), Winner(Black, "Road"), Draw}

\* The candidate trained on the examples; it differs from the network it
\* was copied from.
Trained(net) == Networks \ {net}

\* The top of the loop: with examples a candidate is trained and the pit
\* begins with PitResult::default(); without, self-play follows at once.
TrainCandidate ==
    /\ prog = "train" /\ pc = "training_loop"
    /\ iters < MaxIterations
    /\ IF examples # << >>
       THEN /\ new_network' \in Trained(network)
            /\ pit_result' = PitResultDefault
            /\ tallied' = << >>
            /\ pc' = "pit"
       ELSE /\ pc' = "self_play"
            /\ UNCHANGED <<new_network, pit_result, tallied>>
    /\ UNCHANGED <<inputs, core, loopv, out, notTrain, examples, added, saved, iters>>

\* pit with update called once for both games of a match.
PitTallyFirstOnly ==
    /\ prog = "train" /\ pc = "pit"
    /\ Len(tallied) < PIT_MATCHES
    /\ \E output \in Finished \X Finished :
         /\ pit_result' = update(pit_result, output[1], White)
         /\ tallied' = Append(tallied, output)
    /\ UNCHANGED <<inputs, pc, core, loopv, out, notTrain, examples, added, new_network,
                   saved, iters>>

\* pit: the next output of the worker pool, whichever match it is of, is
\* tallied: its first game with the new network as White, its second with
\* the new network as Black.
PitTally ==
    /\ prog = "train" /\ pc = "pit"
    /\ Len(tallied) < PIT_MATCHES
    /\ \E output \in Finished \X Finished :
         /\ pit_result' = update(update(pit_result, output[1], White), output[2], Black)
         /\ tallied' = Append(tallied, output)
    /\ UNCHANGED <<inputs, pc, core, loopv, out, notTrain, examples, added, new_network,
                   saved, iters>>

\* if results.win_rate() > WIN_RATE_THRESHOLD: the candidate becomes the
\* network and is saved with unwrap; the results are dropped.
TrainDecide ==
    /\ prog = "train" /\ pc = "pit"
    /\ Len(tallied) = PIT_MATCHES
    /\ IF GreaterThan(win_rate(pit_result), WIN_RATE_THRESHOLD)
       THEN /\ network' = new_network
            /\ \E ok \in BOOLEAN :
                 IF ok
                 THEN saved' = Append(saved, new_network) /\ pc' = "self_play"
                      /\ out' = "saving model"
                 ELSE saved' = saved /\ pc' = "panic" /\ out' = out
       ELSE /\ pc' = "self_play"
            /\ UNCHANGED <<network, saved, out>>
    /\ tallied' = << >>
    /\ pit_result' = PitResultDefault
    /\ UNCHANGED <<prog, model_ok, old_network, colour, seconds_per_move, seek_as_white,
                   model_path, core, loopv, notTrain, examples, added, new_network, iters>>

\* examples.truncate(MAX_EXAMPLES)
Truncate(p, n) == IF Len(p) > n THEN SubSeq(p, 1, n) ELSE p

\* The buffer after extend with the first examples dropped on overflow
\* (no reverse around truncate).
KeepOldest(old, new) == Truncate(old \o new, MAX_EXAMPLES)

\* examples.extend(new_examples); over MAX_EXAMPLES: reverse, truncate,
\* reverse.
KeepLatest(old, new) ==
    LET all == old \o new
    IN  IF Len(all) > MAX_EXAMPLES
        THEN Reverse(Truncate(Reverse(all), MAX_EXAMPLES))
        ELSE all

\* Self-play gives new examples, which are saved and put into the buffer.
TrainSelfPlay ==
    /\ prog = "train" /\ pc = "self_play"
    /\ \E k \in 1..MaxNewExamples :
         LET new_examples == [j \in 1..k |-> Len(added) + j]
         IN  /\ examples' = KeepLatest(examples, new_examples)
             /\ added' = added \o new_examples
    /\ iters' = iters + 1
    /\ pc' = "training_loop"
    /\ UNCHANGED <<inputs, core, loopv, out, notTrain, new_network, tallied, pit_result,
                   saved>>

TrainNext ==
    \/ TrainLoad \/ TrainLoadExamples \/ TrainCandidate \/ PitTally \/ TrainDecide
    \/ TrainSelfPlay

Next == PlayNext \/ ExampleNext \/ PitNext \/ PlaytakNext \/ TrainNext

Spec == Init /\ [][Next]_vars

\* ------------------------------------------------------------------ debug.rs, called
\* continuation and debug are functions of a tree; they are called here on
\* every tree that up to MaxTreeRollouts rollouts from a new game can build.
Trees(net) == UNION {RolloutsN(DefaultNode, NewGame, net, n) : n \in 0..MaxTreeRollouts}

Limits == {None} \cup {Some(n) : n \in 0..MaxLimit}

DebugInit ==
    /\ prog = "debug"
    /\ model_ok = TRUE
    /\ network \in Networks
    /\ old_network = "uniform"
    /\ colour = White
    /\ seconds_per_move = 1
    /\ pc = "start"
    /\ game = NewGame
    /\ gameTurns = << >>
    /\ node \in Trees(network)
    /\ nodeTurns = << >>
    /\ turn = NoTurn
    /\ i = 0
    /\ batches = 0
    /\ rollouts = 0
    /\ out = ""
    /\ chan = << >>
    /\ thread = "none"
    /\ tturn = NoTurn
    /\ sent = 0
    /\ recvd = 0
    /\ node2 = DefaultNode
    /\ node2Turns = << >>
    /\ my_colour = White
    /\ openings = << >>
    /\ results = << >>
    /\ seek_as_white = FALSE
    /\ cpc = "none"
    /\ seeks = 0
    /\ started = 0
    /\ sgame = NewGame
    /\ pairs = << >>
    /\ wgame = 0
    /\ to_worker = [g \in GameIds |-> << >>]
    /\ to_client = [g \in GameIds |-> << >>]
    /\ client_dropped = [g \in GameIds |-> FALSE]
    /\ worker_dropped = [g \in GameIds |-> FALSE]
    /\ wlog = << >>
    /\ clog = << >>
    /\ model_path = "path"
    /\ NoCall
    /\ NoTraining

\* node.continuation(min_visit_count, depth)
CallContinuation ==
    /\ prog = "debug" /\ called = "none"
    /\ \E m \in 0..MaxMinVisit, d \in 0..MaxDepth :
         /\ arg_min' = m
         /\ arg_depth' = d
         /\ IF continuationPanics(node, m, d)
            THEN called' = "panic" /\ turns' = << >>
            ELSE called' = "continuation" /\ turns' \in continuation(node, m, d)
    /\ UNCHANGED <<inputs, pc, core, loopv, out, io, pitv, ptv, arg_limit, report, trainv>>

\* node.debug(limit)
CallDebug ==
    /\ prog = "debug" /\ called = "none"
    /\ \E l \in Limits, order \in IterOrders(node) :
         /\ arg_limit' = l
         /\ IF debugPanics(node, order, l)
            THEN called' = "panic" /\ report' = [header |-> "", rows |-> << >>]
            ELSE called' = "debug" /\ report' = debug(node, order, l)
    /\ UNCHANGED <<inputs, pc, core, loopv, out, io, pitv, ptv, arg_min, arg_depth, turns,
                   trainv>>

DebugNext == CallContinuation \/ CallDebug

DebugSpec == DebugInit /\ [][DebugNext]_vars

\* ------------------------------------------------------------------ play, scheduled
\* play alone, its main thread scheduled: try_recv returns and game.play
\* returns.  The user types, or does not, when they like.
PlayInit == Init /\ prog = "play"

PlayFair ==
    /\ WF_vars(PlayRecv)
    /\ WF_vars(PlayTry)

PlayLive == PlayInit /\ [][PlayNext]_vars /\ PlayFair

\* ------------------------------------------------------------------ playtak, scheduled
\* The playtak client alone, its two threads scheduled: the worker thread
\* runs whenever it has something to do (its search ends with the thinking
\* time), and the client's rx.recv() returns once a move or the closing of
\* the channel is there.  The server's updates and ctrl_c come when they
\* come.  One network stands for all: the noise of apply_dirichlet varies
\* the priors at the root.
PlaytakInit == Init /\ prog = "playtak" /\ network = "uniform"

PlaytakFair ==
    /\ WF_vars(WorkerLoad)
    /\ WF_vars(WorkerRecvGame)
    /\ WF_vars(WorkerRecvMove)
    /\ WF_vars(WorkerReply)
    /\ WF_vars(WorkerDisconnected)
    /\ WF_vars(ClientReply)

PlaytakLive == PlaytakInit /\ [][PlaytakNext]_vars /\ PlaytakFair

\* ------------------------------------------------------------------ claims
\* The root of a tree stands for the position g: an expanded root has one
\* child for each legal turn of g and no other.
RootMatches(t, g) == IsPolicyInitialized(t) => Children(t, << >>) = LegalTurns(g)

\* C1: in `play`, whenever the loop condition is evaluated, the turns
\* committed to the tree with node.play are the turns game.play accepted, in
\* the same order, and the root stands for the current position.
C1_Lockstep ==
    (prog = "play" /\ pc = "loop") =>
        /\ nodeTurns = gameTurns
        /\ RootMatches(node, game)

\* Both sides have moved and the loop condition is evaluated on a searched root.
C1_Witness ==
    /\ prog = "play" /\ pc = "loop"
    /\ Len(gameTurns) >= 2
    /\ IsPolicyInitialized(node)

\* C2: in `play`, a human turn that game.play rejects leaves the game as it
\* was before the attempt, the error is printed, the tree and its statistics
\* stay, and the loop goes on to wait for the human's move again.
C2_RejectedTurn ==
    /\ [][(prog = "play" /\ pc = "try" /\ ~Legal(game, turn) /\ pc' # pc) =>
            /\ game' = game
            /\ gameTurns' = gameTurns
            /\ out' = "illegal turn"
            /\ node' = node /\ nodeTurns' = nodeTurns
            /\ pc' = "loop"
            /\ GameWinner(game') = Ongoing /\ game'.to_move # net_colour]_vars
    /\ [][(prog = "play" /\ pc = "loop" /\ pc' # pc
           /\ GameWinner(game) = Ongoing /\ game.to_move # net_colour) =>
            /\ pc' = "ponder" /\ thread' = "reading" /\ chan' = << >>
            /\ UNCHANGED core]_vars

\* After a rejected turn the loop waits for the human again.
C2_Witness ==
    /\ prog = "play" /\ pc = "ponder" /\ thread = "reading"
    /\ out = "illegal turn"
    /\ turn # NoTurn /\ ~Legal(game, turn)
    /\ sent = 0 /\ recvd = 0

\* C3: in the loops of `play`, `example_game` and `pit_game` a turn is picked
\* or applied, and a rollout is done, only while game.winner() is Ongoing;
\* every applied turn leads back to the loop condition, and a position whose
\* result is not Ongoing ends the loop with nothing done to game or trees.
LoopPrograms == {"play", "example_game", "pit_game"}

C3_OnlyWhileOngoing ==
    /\ []((prog \in LoopPrograms /\ GameWinner(game) # Ongoing) =>
            pc \in {"loop", "done", "start"})
    /\ [][(prog \in LoopPrograms /\ pc # "start"
           /\ (gameTurns' # gameTurns \/ node' # node \/ node2' # node2 \/ turn' # turn)) =>
            GameWinner(game) = Ongoing]_vars
    /\ [][(prog \in LoopPrograms /\ pc # "start" /\ gameTurns' # gameTurns) =>
            pc' = "loop"]_vars
    /\ [][(prog \in LoopPrograms /\ pc = "loop" /\ GameWinner(game) # Ongoing /\ pc' # pc) =>
            /\ pc' \in {"done", "start"}
            /\ UNCHANGED <<core, node2, node2Turns, turn>>]_vars

\* A game played to its end in a loop.
C3_Witness ==
    /\ prog \in LoopPrograms /\ pc = "done"
    /\ GameWinner(game) # Ongoing
    /\ Len(gameTurns) >= 3

\* C4: on the human's turn in `play` the steps of the input thread leave the
\* game and the tree alone, a spawned input thread sends at most one turn,
\* and the game changes only after that turn has been received.
C4_ChannelOnly ==
    /\ [](prog = "play" => (sent <= 1 /\ recvd <= sent /\ Len(chan) = sent - recvd))
    /\ [][(prog = "play" /\ (thread' # thread \/ tturn' # tturn \/ sent' # sent)) =>
            UNCHANGED <<core, turn>>]_vars
    /\ [][(prog = "play" /\ game.to_move # net_colour
           /\ (game' # game \/ gameTurns' # gameTurns)) =>
            (recvd = 1 /\ turn = tturn /\ thread = "exited")]_vars

\* The turn of an input thread has been received and played.
C4_Witness ==
    /\ prog = "play" /\ pc = "loop"
    /\ sent = 1 /\ recvd = 1 /\ thread = "exited"
    /\ gameTurns # << >> /\ gameTurns[Len(gameTurns)] = tturn

\* C5: in `play` the network's pick, the take-up of a received human turn and
\* every commit to the tree happen after a whole number of complete batches
\* of rollouts on the current position.
C5_BatchBoundary ==
    [][(prog = "play" /\ (nodeTurns' # nodeTurns \/ recvd' # recvd \/ turn' # turn)
        /\ pc # "loop") =>
         rollouts % BatchSize = 0]_vars

\* A human turn taken up after a batch of pondering.
C5_Witness ==
    /\ prog = "play" /\ pc = "try"
    /\ rollouts >= BatchSize

\* C6: node = node.play(&turn) after pick_move makes the chosen child the
\* root with its visit count and the statistics of its whole subtree as they
\* were, and the new tree holds nothing but that subtree.
Subtree(t, k) == {q \in DOMAIN t : Len(q) >= 1 /\ q[1] = k}

C6_TreeReuse ==
    [][(prog \in {"play", "example_game"} /\ pc \in {"net_clock", "clock"}
        /\ nodeTurns' # nodeTurns) =>
         LET k == turn'
         IN  /\ nodeTurns' = Append(nodeTurns, k)
             /\ <<k>> \in DOMAIN node
             /\ node'[<< >>].visits = node[<<k>>].visits
             /\ Cardinality(DOMAIN node') = Cardinality(Subtree(node, k))
             /\ \A p \in DOMAIN node' :
                  /\ <<k>> \o p \in DOMAIN node
                  /\ node'[p] = node[<<k>> \o p]]_vars

\* A searched child has become the root, with visits and children of its own.
C6_Witness ==
    /\ prog \in {"play", "example_game"} /\ pc = "loop"
    /\ nodeTurns # << >> /\ nodeTurns[Len(nodeTurns)] = turn
    /\ node[<< >>].visits > 0
    /\ IsPolicyInitialized(node)

\* C7: in the playtak worker's turn loop every turn applied to the local
\* game is committed to the Player's tree as well, so that wherever rollouts
\* run the tree has been advanced by the turns of the game and its root
\* stands for the game's position.
C7_WorkerLockstep ==
    (prog = "playtak" /\ pc \in {"turn_loop", "think"}) =>
        /\ nodeTurns = gameTurns
        /\ RootMatches(node, game)

\* C8: in `pit_game`, whenever the loop condition is evaluated, the trees of
\* both players have been advanced by exactly the turns applied to the game,
\* in the same order.
C8_PitLockstep ==
    (prog = "pit_game" /\ pc = "loop") =>
        /\ nodeTurns = gameTurns /\ node2Turns = gameTurns
        /\ RootMatches(node, game) /\ RootMatches(node2, game)

\* Each player has picked a turn in one game.
C8_Witness ==
    /\ prog = "pit_game" /\ pc = "loop"
    /\ Len(gameTurns) = 4

\* C9: the two games of `pit_game` start from the same opening.
C9_SameOpening ==
    (prog = "pit_game" /\ Len(openings) = 2) => openings[1] = openings[2]

\* C10: a model that cannot be loaded stops `play` before any turn or
\* rollout and `train` before the training loop, and the playtak client
\* creates no seek and begins no game.
C10_LoadFailureFatal ==
    ~model_ok =>
        /\ prog = "play" => (pc \in {"start", "panic"} /\ gameTurns = << >> /\ node = DefaultNode)
        /\ (prog = "train" /\ model_path = "path") => pc \in {"start", "panic"}
        /\ prog = "playtak" => (seeks = 0 /\ started = 0)

\* ------------------------------------------------------------------ C11..C14
\* The node of the tree continuation was called on that the first n returned
\* turns lead to.
Upto(n) == SubSeq(turns, 1, n)

\* C11: continuation(min_visit_count, depth) returns the empty sequence
\* exactly when depth is 0, or the node has no children, or the node is
\* non-terminal and was visited fewer than min_visit_count times; a
\* non-terminal node with children, depth > 0 and exactly min_visit_count
\* visits is not truncated.
C11_EmptyExactly ==
    called = "continuation" =>
        (turns = << >> <=>
            \/ arg_depth = 0
            \/ Children(node, << >>) = {}
            \/ (node[<< >>].result = Ongoing /\ node[<< >>].visits < arg_min))

C13_BoundedByDepth ==
    (called = "continuation" /\ arg_min = 0) =>
        /\ Len(turns) <= arg_depth
        /\ \A j \in 0..(Len(turns) - 1) :
             Children(node, Upto(j)) # {} /\ node[Upto(j)].result = Ongoing
        /\ Len(turns) < arg_depth =>
             (Children(node, turns) = {} \/ node[turns].result # Ongoing)

\* A line cut by the depth although the tree goes on below it.
C13_Witness ==
    /\ called = "continuation" /\ arg_min = 0
    /\ Len(turns) = arg_depth /\ arg_depth >= 1
    /\ Children(node, turns) # {}

\* C14: debug(limit) gives the header alone for a node that is not expanded
\* and otherwise one row per child, in non-increasing order of visits: all
\* children for None, the first `limit` of them for Some(limit).
C14_DebugSorted ==
    called = "debug" =>
        LET kids == Children(node, << >>)
            rows == report.rows
            shown == {FromPTN(rows[j].turn).turn : j \in 1..Len(rows)}
        IN  /\ report.header = Header
            /\ Len(rows) = (IF arg_limit.some /\ arg_limit.n < Cardinality(kids)
                            THEN arg_limit.n ELSE Cardinality(kids))
            /\ shown \subseteq kids /\ Cardinality(shown) = Len(rows)
            /\ \A j \in 1..Len(rows) : rows[j].visits = node[<<FromPTN(rows[j].turn).turn>>].visits
            /\ \A a, b \in 1..Len(rows) : a < b => rows[a].visits >= rows[b].visits
            /\ \A k \in kids \ shown : \A j \in 1..Len(rows) : node[<<k>>].visits <= rows[j].visits

\* A report cut by the limit, its rows of different visit counts.
C14_Witness ==
    /\ called = "debug"
    /\ arg_limit.some /\ arg_limit.n = 2
    /\ Len(report.rows) = 2 /\ Cardinality(Children(node, << >>)) > 2
    /\ report.rows[1].visits > report.rows[2].visits

Sends == SelectSeq(wlog, LAMBDA e : e.ev = "send")
Takes == SelectSeq(wlog, LAMBDA e : e.ev = "recv")
Plays == SelectSeq(clog, LAMBDA e : e.ev = "play")
Forwards == SelectSeq(clog, LAMBDA e : e.ev = "fwd")
Moves(log) == [j \in 1..Len(log) |-> log[j].move]
IsPrefix(a, b) == Len(a) <= Len(b) /\ a = SubSeq(b, 1, Len(a))

\* C15: in a game of the playtak client the worker answers a forwarded move
\* with one move when the game goes on after it and with none when it ended
\* the game, takes the next move only after its answer, and the client
\* waits for the answer after every move it forwards and plays on the server
\* the worker's moves only, in the order they were sent.
C15_Alternation ==
    /\ \A j \in 1..Len(wlog) :
         /\ wlog[j].ev = "send" =>
              (j > 1 /\ wlog[j - 1].ev = "recv" /\ wlog[j - 1].ongoing)
         /\ (wlog[j].ev = "recv" /\ j < Len(wlog)) =>
              (wlog[j].ongoing /\ wlog[j + 1].ev = "send")
         /\ (wlog[j].ev = "recv" /\ j = Len(wlog) /\ wlog[j].ongoing) =>
              pc \in {"think", "panic"}
    /\ \A j \in 1..Len(clog) :
         IF j % 2 = 1 THEN clog[j].ev = "fwd" ELSE clog[j].ev \in {"play", "none"}
    /\ (prog = "playtak" /\ wgame = started) =>
         /\ IsPrefix(Moves(Takes), Moves(Forwards))
         /\ IsPrefix(Moves(Plays), Moves(Sends))
    /\ (prog = "playtak" /\ wgame # started) => Plays = << >>

\* A game in which the worker's answer to one move was played by the client
\* and the opponent's next move ended the game, so that no answer came.
C15_Witness ==
    /\ Len(Plays) >= 1
    /\ Len(Forwards) >= 2
    /\ clog[Len(clog)] = Closed
    /\ wgame = started /\ ~wlog[Len(wlog)].ongoing

\* ------------------------------------------------------------------ C16
\* C16: the client's wait for the worker's reply always ends; where it ended
\* with the channel closed and the worker thread is alive, the opponent's
\* move had ended the game, and a worker that has left its game waits for the
\* next channel pair.
C16_WaitEnds ==
    /\ (cpc = "await_reply") ~> (cpc # "await_reply")
    /\ []((clog # << >> /\ clog[Len(clog)] = Closed /\ pc # "panic") =>
            (wgame = started /\ worker_dropped[started] /\ ~wlog[Len(wlog)].ongoing))
    /\ [](\A g \in GameIds : (wgame = g /\ worker_dropped[g]) => pc \in {"wait_game", "panic"})

\* The opponent's move ended the game, the client's wait ended with the
\* channel closed and the worker waits for the next pair.
C16_Witness ==
    /\ clog # << >> /\ clog[Len(clog)] = Closed
    /\ pc = "wait_game" /\ cpc = "update"

\* ------------------------------------------------------------------ C17
\* The positions of play's main thread inside the pondering loop.
Pondering == {"ponder", "ponder_batch"}

\* C17: the pondering loop of play is left only at try_recv and only with a
\* turn taken from the channel, which is tried on the game next; a batch is
\* BatchSize rollouts and then try_recv again; a turn in the channel at
\* try_recv is taken and tried; with the input thread dead and nothing sent
\* the loop is never left.
C17_PonderEnds ==
    /\ [][(pc \in Pondering /\ pc' \notin Pondering) =>
              (pc = "ponder" /\ chan # << >> /\ pc' = "try" /\ turn' = Head(chan))]_vars
    /\ [][pc = "ponder_batch" =>
              \/ (pc' = "ponder_batch" /\ i' \in {i, i + 1} /\ i' < BatchSize)
              \/ (pc' = "ponder" /\ i' = BatchSize)]_vars
    /\ [][(pc = "try" /\ pc' # "try") =>
              (pc' = "loop" /\ gameTurns' \in {gameTurns, Append(gameTurns, turn)})]_vars
    /\ [][(pc \in Pondering /\ thread = "dead") =>
              (pc' \in Pondering /\ thread' = "dead" /\ chan' = << >>)]_vars
    /\ (pc = "ponder" /\ chan # << >>) ~> (pc = "loop")

\* The input thread has died with nothing sent while the loop ponders.
C17_Witness ==
    /\ pc \in Pondering /\ thread = "dead" /\ chan = << >>
    /\ i >= 1

\* ------------------------------------------------------------------ C18..C20
\* The games of the tallied matches the new network won: the first game of
\* a match as White, the second as Black; and those the old network won.
RECURSIVE NewWins(_)
NewWins(outputs) ==
    IF outputs = << >> THEN 0
    ELSE NewWins(Tail(outputs))
         + (IF Head(outputs)[1] = Winner(White, "Road") THEN 1 ELSE 0)
         + (IF Head(outputs)[2] = Winner(Black, "Road") THEN 1 ELSE 0)

RECURSIVE OldWins(_)
OldWins(outputs) ==
    IF outputs = << >> THEN 0
    ELSE OldWins(Tail(outputs))
         + (IF Head(outputs)[1] = Winner(Black, "Road") THEN 1 ELSE 0)
         + (IF Head(outputs)[2] = Winner(White, "Road") THEN 1 ELSE 0)

\* C18: in training_loop the network changes, and a network is saved, only
\* at the end of a pit in which the new network won more than 55% of the
\* decisive games; the network then is the candidate and the candidate is
\* what is saved.
C18_ReplacedOnlyOnWin ==
    [][(prog = "train" /\ (network' # network \/ saved' # saved)) =>
          /\ pc = "pit" /\ Len(tallied) = PIT_MATCHES
          /\ NewWins(tallied) + OldWins(tallied) > 0
          /\ NewWins(tallied) * 100 > 55 * (NewWins(tallied) + OldWins(tallied))
          /\ network' = new_network
          /\ saved' \in {saved, Append(saved, new_network)}]_vars

\* A candidate has replaced the network and has been saved.
C18_Witness ==
    /\ prog = "train" /\ saved # << >>
    /\ network = saved[Len(saved)]

\* C19: after every iteration of training_loop the buffer holds the last
\* MAX_EXAMPLES of the examples ever added, or all of them if they are
\* fewer, in the order they were added.
C19_LatestExamples ==
    (prog = "train" /\ pc = "training_loop" /\ iters >= 1) =>
        /\ Len(examples) <= MAX_EXAMPLES
        /\ Len(examples) = (IF Len(added) > MAX_EXAMPLES THEN MAX_EXAMPLES ELSE Len(added))
        /\ examples = SubSeq(added, Len(added) - Len(examples) + 1, Len(added))

\* An iteration has ended with more examples added than the buffer holds.
C19_Witness ==
    /\ prog = "train" /\ pc = "training_loop" /\ iters >= 1
    /\ Len(added) > MAX_EXAMPLES

\* C20: in pit, wins + draws + losses is the number of games of the matches
\* tallied, two a match; wins are the games the new network won and losses
\* those the old network won, in whatever order the outputs came.
C20_PitTallies ==
    (prog = "train" /\ pc = "pit") =>
        /\ pit_result.wins + pit_result.draws + pit_result.losses = 2 * Len(tallied)
        /\ pit_result.wins = NewWins(tallied)
        /\ pit_result.losses = OldWins(tallied)

\* A pit is over with a win, a loss and a draw among its games.
C20_Witness ==
    /\ prog = "train" /\ pc = "pit" /\ Len(tallied) = PIT_MATCHES
    /\ pit_result.wins >= 1 /\ pit_result.losses >= 1 /\ pit_result.draws >= 1
====
